---- MODULE Spec2Model ----
(***************************************************************************)
(* A model of prysk's command line layer (src/prysk/cli.py): main(), the   *)
(* runcli() generator with its testwrapper closure, _prompt(), _patch(),   *)
(* _log() and _conflicts().                                                *)
(*                                                                         *)
(* Python strings that are inspected character by character (_prompt) are  *)
(* sequences of one-character strings.  Python's None is the value None.   *)
(***************************************************************************)
EXTENDS Naturals, Sequences, FiniteSets

(* ---------------------------------------------------------------------- *)
(* Bounds                                                                  *)
(* ---------------------------------------------------------------------- *)
\* most tests the runner yields in one run
NumTests == 2
\* most characters of one line typed on stdin
MaxLineLen == 2
\* most lines available on stdin before end of file
MaxReads == 1
\* most wrapper invocations of a caller that drives runcli() by hand
MaxCalls == 2

(* ---------------------------------------------------------------------- *)
(* Values                                                                  *)
(* ---------------------------------------------------------------------- *)
\* Python's None, kept apart from every sequence of lines or characters
None == <<"None">>

\* characters that can be typed; " " stands for white space
Chars == {"y", "N", " "}

IsUpper(c) == c \in {"Y", "N"}

LowerChar(c) == IF c = "Y" THEN "y" ELSE IF c = "N" THEN "n" ELSE c

\* str.lower()
Lower(s) == [i \in 1..Len(s) |-> LowerChar(s[i])]

RECURSIVE LStrip(_)
LStrip(s) == IF s # <<>> /\ Head(s) = " " THEN LStrip(Tail(s)) ELSE s

RECURSIVE RStrip(_)
RStrip(s) ==
    IF s # <<>> /\ s[Len(s)] = " " THEN RStrip(SubSeq(s, 1, Len(s) - 1)) ELSE s

\* str.strip()
Strip(s) == RStrip(LStrip(s))

\* Python's `a in b` on two strings: a is a contiguous part of b
InStr(a, b) ==
    \E i \in 0..(Len(b) - Len(a)) : SubSeq(b, i + 1, i + Len(a)) = a

\* the answers string runcli passes to _prompt: "yN"
YN == <<"y", "N">>

\* the lines that can be read from stdin
LinesOfLen(n) == [1..n -> Chars]
Lines == UNION {LinesOfLen(n) : n \in 0..MaxLineLen}
StdinOfLen(n) == [1..n -> Lines]
Stdins == UNION {StdinOfLen(n) : n \in 0..MaxReads}

(* ---------------------------------------------------------------------- *)
(* _prompt                                                                 *)
(* ---------------------------------------------------------------------- *)
\* default = [c for c in answers if c.isupper()]
Default(answers) == SelectSeq(answers, IsUpper)

\* sys.stdin.readline(): the next line, "" at end of file
ReadLine(stdin) == IF stdin = <<>> THEN <<>> ELSE Head(stdin)

RestOf(stdin) == IF stdin = <<>> THEN <<>> ELSE Tail(stdin)

\* `elif answer and answer in answers.lower()`
PromptAccepts(answer, answers) ==
    answer # <<>> /\ InStr(answer, Lower(answers))

\* `return default[0]`
DefaultOnEmpty(answers) == <<Default(answers)[1]>>

\* one pass of the while loop once a line was read
\* (done: the loop returns; value: what it returns)
PromptLine(answers, line) ==
    LET answer == Lower(Strip(line))
    IN  IF answer = <<>> /\ Default(answers) # <<>>
        THEN [done |-> TRUE, value |-> DefaultOnEmpty(answers)]
        ELSE IF PromptAccepts(answer, answers)
        THEN [done |-> TRUE, value |-> answer]
        ELSE [done |-> FALSE, value |-> None]

\* _prompt(question, answers, auto) reading from stdin; with a default the
\* loop ends at end of file at the latest
RECURSIVE _prompt(_, _, _)
_prompt(answers, auto, stdin) ==
    IF auto # None THEN auto
    ELSE LET r == PromptLine(answers, ReadLine(stdin))
         IN  IF r.done THEN r.value
             ELSE IF stdin = <<>> THEN None
             ELSE _prompt(answers, auto, RestOf(stdin))
(* ---------------------------------------------------------------------- *)
(* _log, _patch, _conflicts                                                *)
(* ---------------------------------------------------------------------- *)
\* _log(msg, verbosemsg, verbose): what is written to stdout; "" stands for
\* a message that is None or empty, which writes nothing
_log(msg, verbosemsg, verbose) ==
    LET m == IF verbose THEN verbosemsg ELSE msg
    IN  IF m # "" THEN <<m>> ELSE <<>>

\* (a variant that takes any exit status for success)
PatchAlwaysOk(retcode) == TRUE

\* _patch(cmd, diff): the exit status of `patch -p0` decides
_patch(retcode) == retcode = 0

\* exit statuses of the patch command
Retcodes == {0, 1}

\* the settings main() works with after merge_settings
Settings ==
    [yes : BOOLEAN, no : BOOLEAN, quiet : BOOLEAN, interactive : BOOLEAN,
     debug : BOOLEAN, verbose : BOOLEAN, xunit_file : BOOLEAN,
     keep_tmpdir : BOOLEAN]

\* the table of _conflicts, in its order
ConflictTable(s) ==
    << <<"--yes", s.yes, "--no", s.no>>,
       <<"--quiet", s.quiet, "--interactive", s.interactive>>,
       <<"--debug", s.debug, "--quiet", s.quiet>>,
       <<"--debug", s.debug, "--interactive", s.interactive>>,
       <<"--debug", s.debug, "--verbose", s.verbose>>,
       <<"--debug", s.debug, "--xunit-file", s.xunit_file>> >>

\* _conflicts(settings): the first pair of the table with both options set,
\* None when there is none
_conflicts(s) ==
    LET t == ConflictTable(s)
        hits == {i \in 1..Len(t) : t[i][2] /\ t[i][4]}
    IN  IF hits = {} THEN None
        ELSE LET i == CHOOSE j \in hits : \A k \in hits : j <= k
             IN  <<t[i][1], t[i][3]>>

\* what main() finds in its surroundings: whether the config file loads,
\* whether _which finds the shell and patch, whether every test path exists
Worlds ==
    [configOK : BOOLEAN, shellFound : BOOLEAN, patchFound : BOOLEAN,
     pathsExist : BOOLEAN]

\* patch is looked up only with --interactive (lines 250-251); patchFound
\* stays TRUE when it is not looked up
WorldsFor(s) == {w \in Worlds : ~s.interactive => w.patchFound}

\* (a variant that looks for the test paths only after the sandbox is made)
FatalErrorNoPaths(s, w) ==
    IF ~w.configOK THEN "config"
    ELSE IF _conflicts(s) # None THEN "conflict"
    ELSE IF ~w.shellFound THEN "shell"
    ELSE IF s.interactive /\ ~w.patchFound THEN "patch"
    ELSE "none"

\* the checks of main() before the sandbox, in their order; "none" when all pass
FatalError(s, w) ==
    IF ~w.configOK THEN "config"
    ELSE IF _conflicts(s) # None THEN "conflict"
    ELSE IF ~w.shellFound THEN "shell"
    ELSE IF s.interactive /\ ~w.patchFound THEN "patch"
    ELSE IF ~w.pathsExist THEN "nofile"
    ELSE "none"

\* answer = "y" if settings.yes, "n" if settings.no, else None
AnswerOf(s) == IF s.yes THEN <<"y">> ELSE IF s.no THEN <<"n">> ELSE None

\* the arguments main() passes to runcli
CliOf(s) ==
    [quiet |-> s.quiet, verbose |-> s.verbose, patchcmd |-> s.interactive,
     answer |-> AnswerOf(s)]

\* the arguments a caller can pass to runcli
Clis ==
    [quiet : BOOLEAN, verbose : BOOLEAN, patchcmd : BOOLEAN,
     answer : {None, <<"y">>, <<"n">>}]

(* ---------------------------------------------------------------------- *)
(* Test results                                                            *)
(* ---------------------------------------------------------------------- *)
\* reference output of a test that has one
Ref == <<"ref">>
\* post outputs: no line at all, or one line
Posts == {<<>>, <<"out">>}
\* a non-empty diff
Diff == <<"-ref", "+out">>

\* what a test function returns: (refout, postout, diff)
TestResults ==
    [refout : {None, Ref}, postout : {None} \cup Posts, diff : {<<>>, Diff}]

\* the path of the i-th test the runner yields
PathOf(i) == i
Paths == {PathOf(i) : i \in 1..NumTests}

(* ---------------------------------------------------------------------- *)
(* runcli.testwrapper                                                      *)
(* ---------------------------------------------------------------------- *)
\* the branch testwrapper takes on the result of test()
Classify(res) ==
    IF res.refout = None THEN "empty"
    ELSE IF res.postout = None THEN "skipped"
    ELSE IF res.diff = <<>> THEN "passed"
    ELSE "failed"

\* the status written for each branch
StatusMsg(class, verbose) ==
    IF class = "empty" THEN _log("s", "empty\n", verbose)
    ELSE IF class = "skipped" THEN _log("s", "skipped\n", verbose)
    ELSE IF class = "passed" THEN _log(".", "passed\n", verbose)
    ELSE _log("!", "failed\n", verbose)

\* (a variant that asks whether or not a patch command is there)
AsksAlways(c) == ~c.quiet

\* `if not quiet: ... if patchcmd and _prompt(...)`: the prompt is shown
Asks(c) == ~c.quiet /\ c.patchcmd

\* (a variant that writes the reference output to the .err file)
ErrWrittenRef(res) == res.refout

\* `for line in postout: errfile.write(line)`: the lines of the .err file
ErrWritten(res) == res.postout

\* the free variables path and test of testwrapper are cells of the frame of
\* runcli: a call of the wrapper yielded for test w reads what the frame
\* holds at the time of the call
Bound(w, frame) == frame

\* testwrapper(), called while the frame of runcli holds test k, whose test
\* function returns res; prompted is what _prompt returns if it is called,
\* retcode what patch exits with if it is run, err the .err files, cnt the
\* counters of runcli
testwrapper(w, k, res, c, prompted, retcode, err, cnt) ==
    LET class == Classify(res)
        path == PathOf(k)
        asked == class = "failed" /\ Asks(c)
        ans == IF asked THEN prompted ELSE None
        patchrun == asked /\ ans = <<"y">>
        merged == patchrun /\ _patch(retcode)
        mergemsg ==
            IF ~patchrun THEN <<>>
            ELSE IF merged THEN _log("", "merged output\n", c.verbose)
            ELSE _log("merge failed\n", "", FALSE)
        newerr ==
            IF class = "empty" \/ class = "skipped" THEN err[path]
            ELSE IF class = "passed" THEN None
            ELSE IF merged THEN None
            ELSE ErrWritten(res)
    IN  [cnt |-> [total |-> cnt.total + 1,
                  skipped |-> cnt.skipped
                      + (IF class \in {"empty", "skipped"} THEN 1 ELSE 0),
                  failed |-> cnt.failed + (IF class = "failed" THEN 1 ELSE 0)],
         err |-> [err EXCEPT ![path] = newerr],
         ret |-> res,
         rec |-> [cli |-> TRUE, w |-> w, idx |-> k, path |-> path, res |-> res,
                  status |-> StatusMsg(class, c.verbose),
                  asked |-> asked, ans |-> ans, patchrun |-> patchrun,
                  retcode |-> IF patchrun THEN retcode ELSE 0,
                  mergemsg |-> mergemsg, errBefore |-> err[path]]]

\* a test function called by main() itself (--debug): no wrapper around it
plaintest(k, res) ==
    [cli |-> FALSE, w |-> k, idx |-> k, path |-> PathOf(k), res |-> res,
     status |-> <<>>, asked |-> FALSE, ans |-> None, patchrun |-> FALSE,
     retcode |-> 0, mergemsg |-> <<>>, errBefore |-> None]
\* what is kept of a call once a later call was made: the wrapper called,
\* the test run, whether its diff was non-empty, what became of the merge
Call(rec) ==
    [w |-> rec.w, idx |-> rec.idx, bad |-> rec.res.diff # <<>>,
     patch |-> IF ~rec.patchrun THEN "none"
               ELSE IF rec.retcode = 0 THEN "merged" ELSE "failed"]

(* ---------------------------------------------------------------------- *)
(* State                                                                   *)
(* ---------------------------------------------------------------------- *)
VARIABLES
    pc,        \* where main() (or the caller of runcli, or _prompt) stands
    settings,  \* main: settings
    world,     \* what the checks of main() find
    exit,      \* <<>>, or <<n>> once main() returned n
    tmpdir,    \* the sandbox root: "none", "exists" or "removed"
    proctmp,   \* whether the tmp subdirectory was made
    environ,   \* the environment variables main() has set
    cli,       \* <<>>, or <<c>>: the arguments of the runcli generator
    frame,     \* runcli: the test its frame holds in path and test (0: none yet)
    genDone,   \* runcli: the generator is exhausted
    cnt,       \* runcli: total[0], skipped[0], failed[0]
    hastests,  \* main: hastests
    failed,    \* main: failed
    ran,       \* the calls made so far: wrapper called, test run, diff non-empty
    last,      \* <<>>, or <<r>>: the latest call of a test callable
    errfile,   \* the .err file of each path: None when absent, else its lines
    summary,   \* <<>>, or <<c>>: the counts of the "# Ran" line written
    pAnswers,  \* _prompt: answers
    pAuto,     \* _prompt: auto
    pStdin,    \* _prompt: the lines still to be read from stdin
    pAsked,    \* _prompt: how many times the question was written
    pRet       \* _prompt: <<>>, or <<v>> once it returned v

mainvars ==
    <<settings, world, exit, tmpdir, proctmp, environ, hastests, failed>>
clivars == <<cli, frame, genDone, cnt, ran, last, errfile, summary>>
promptvars == <<pAnswers, pAuto, pStdin, pAsked, pRet>>
vars == <<pc, mainvars, clivars, promptvars>>

NoSettings ==
    [yes |-> FALSE, no |-> FALSE, quiet |-> FALSE, interactive |-> FALSE,
     debug |-> FALSE, verbose |-> FALSE, xunit_file |-> FALSE,
     keep_tmpdir |-> FALSE]

NoWorld ==
    [configOK |-> TRUE, shellFound |-> TRUE, patchFound |-> TRUE,
     pathsExist |-> TRUE]

NoCounts == [total |-> 0, skipped |-> 0, failed |-> 0]

\* the variables main() sets
EnvSet == {"PRYSK_TEMP", "TMPDIR", "TEMP", "TMP"}

\* a process that has not started main() yet; err is what earlier runs left
Fresh(err) ==
    /\ settings = NoSettings /\ world = NoWorld
    /\ exit = <<>> /\ tmpdir = "none" /\ proctmp = FALSE /\ environ = {}
    /\ cli = <<>> /\ frame = 0 /\ genDone = FALSE /\ cnt = NoCounts
    /\ hastests = FALSE /\ failed = FALSE
    /\ ran = <<>> /\ last = <<>> /\ summary = <<>>
    /\ errfile = err

NoPrompt ==
    /\ pAnswers = YN /\ pAuto = None /\ pStdin = <<>>
    /\ pAsked = 0 /\ pRet = <<>>

Init == pc = "start" /\ Fresh([p \in Paths |-> None]) /\ NoPrompt

(* ---------------------------------------------------------------------- *)
(* main                                                                    *)
(* ---------------------------------------------------------------------- *)
\* lines 216-266: the arguments and the config file are read and checked;
\* any failed check returns 2
Validate ==
    /\ pc = "start"
    /\ \E s \in Settings : \E w \in WorldsFor(s) :
        /\ settings' = s
        /\ world' = w
        /\ IF FatalError(s, w) # "none"
           THEN pc' = "done" /\ exit' = <<2>>
           ELSE pc' = "sandbox" /\ exit' = exit
    /\ UNCHANGED <<tmpdir, proctmp, environ, hastests, failed>>
    /\ UNCHANGED <<clivars, promptvars>>

\* lines 268-272: mkdtemp and the four environment variables
CreateSandbox ==
    /\ pc = "sandbox"
    /\ tmpdir' = "exists"
    /\ environ' = EnvSet
    /\ pc' = "mkdir"
    /\ UNCHANGED <<settings, world, exit, proctmp, hastests, failed>>
    /\ UNCHANGED <<clivars, promptvars>>

\* lines 274-296: os.mkdir(proctmp) succeeds, the generators are built
MkdirTmp ==
    /\ pc = "mkdir"
    /\ proctmp' = TRUE
    /\ cli' = IF settings.debug THEN <<>> ELSE <<CliOf(settings)>>
    /\ pc' = "loop"
    /\ UNCHANGED <<settings, world, exit, tmpdir, environ, hastests, failed>>
    /\ UNCHANGED <<frame, genDone, cnt, ran, last, errfile, summary>>
    /\ UNCHANGED promptvars

\* line 274: os.mkdir(proctmp) raises; the try statement starts on line 275,
\* so the exception leaves main() without passing through its finally clause
MkdirRaises ==
    /\ pc = "mkdir"
    /\ pc' = "raised"
    /\ UNCHANGED <<mainvars, clivars, promptvars>>

\* lines 308-312: the finally clause
Finally(keep, dir) == IF keep THEN dir ELSE "removed"

\* (a variant of the loop that stops at the first failure)
AfterTestBreak(diff) == IF diff # <<>> THEN "stop" ELSE "loop"

\* lines 297-301: after a test the loop goes on to the next one
AfterTest(diff) == "loop"

\* what _prompt("Accept this change?", "yN", None) can return, over all that
\* can be read from stdin
Typed == {_prompt(YN, None, stdin) : stdin \in Stdins}

\* what the prompt of a call of the wrapper can return: None (it is not
\* shown) unless the test failed and the wrapper asks
AnswersFor(res, c) ==
    IF Classify(res) = "failed" /\ Asks(c)
    THEN IF c.answer = None THEN Typed ELSE {_prompt(YN, c.answer, <<>>)}
    ELSE {None}

\* the exit statuses patch can end with in a call of the wrapper: it is not
\* run (0 stands for that) unless the prompt is shown
RetcodesFor(res, c) ==
    IF Classify(res) = "failed" /\ Asks(c) THEN Retcodes ELSE {0}

\* lines 297-301 with the whole of testwrapper: the generator binds the next
\* test, main() calls the callable it yields and looks at the diff
RunTest ==
    /\ pc = "loop" /\ ~genDone /\ frame < NumTests
    /\ LET k == frame + 1
       IN  IF cli = <<>>
           THEN \E res \in TestResults :
                 /\ last' = <<plaintest(k, res)>>
                 /\ ran' = Append(ran, Call(plaintest(k, res)))
                 /\ failed' = (failed \/ res.diff # <<>>)
                 /\ pc' = AfterTest(res.diff)
                 /\ UNCHANGED <<cnt, errfile>>
           ELSE \E res \in TestResults :
                \E ans \in AnswersFor(res, cli[1]),
                   retcode \in RetcodesFor(res, cli[1]) :
                 LET r == testwrapper(k, Bound(k, k), res, cli[1], ans, retcode,
                                      errfile, cnt)
                 IN  /\ last' = <<r.rec>>
                     /\ ran' = Append(ran, Call(r.rec))
                     /\ cnt' = r.cnt
                     /\ errfile' = r.err
                     /\ failed' = (failed \/ r.ret.diff # <<>>)
                     /\ pc' = AfterTest(r.ret.diff)
    /\ frame' = frame + 1
    /\ hastests' = TRUE
    /\ UNCHANGED <<settings, world, exit, tmpdir, proctmp, environ>>
    /\ UNCHANGED <<cli, genDone, summary>>
    /\ UNCHANGED promptvars

\* lines 297-299, 388-391: the test function raises; the exception passes
\* through the finally clause and leaves main()
TestRaises ==
    /\ pc = "loop" /\ ~genDone /\ frame < NumTests
    /\ frame' = frame + 1
    /\ hastests' = TRUE
    /\ cnt' = IF cli = <<>> THEN cnt ELSE [cnt EXCEPT !.total = @ + 1]
    /\ tmpdir' = Finally(settings.keep_tmpdir, tmpdir)
    /\ pc' = "raised"
    /\ UNCHANGED <<settings, world, exit, proctmp, environ, failed>>
    /\ UNCHANGED <<cli, genDone, ran, last, errfile, summary>>
    /\ UNCHANGED promptvars

\* (a variant that returns 0 when there was no test)
ExitStatusNoTests(has, fail) == IF fail THEN 1 ELSE 0

\* lines 303-307: 2 without tests, else int(failed)
ExitStatus(has, fail) == IF ~has THEN 2 ELSE IF fail THEN 1 ELSE 0

\* lines 433-435: the "# Ran" line, written once a test was run
SummaryOf(c) == IF c.total > 0 THEN <<c>> ELSE <<>>

\* lines 297, 433-435, 303-312: the generator is exhausted (or the loop was
\* left), the summary is written, main() returns through the finally clause
Finish ==
    /\ pc \in {"loop", "stop"}
    /\ genDone' = (pc = "loop")
    /\ summary' = IF cli # <<>> /\ pc = "loop" THEN SummaryOf(cnt) ELSE <<>>
    /\ exit' = <<ExitStatus(hastests, failed)>>
    /\ tmpdir' = Finally(settings.keep_tmpdir, tmpdir)
    /\ pc' = "done"
    /\ UNCHANGED <<settings, world, proctmp, environ, hastests, failed>>
    /\ UNCHANGED <<cli, frame, cnt, ran, last, errfile>>
    /\ UNCHANGED promptvars

\* the process has ended; prysk is started again and finds the .err files
\* the earlier runs left
NewRun ==
    /\ pc \in {"done", "raised"}
    /\ pc' = "start"
    /\ settings' = NoSettings /\ world' = NoWorld
    /\ exit' = <<>> /\ tmpdir' = "none" /\ proctmp' = FALSE /\ environ' = {}
    /\ cli' = <<>> /\ frame' = 0 /\ genDone' = FALSE /\ cnt' = NoCounts
    /\ hastests' = FALSE /\ failed' = FALSE
    /\ ran' = <<>> /\ last' = <<>> /\ summary' = <<>>
    /\ UNCHANGED errfile
    /\ UNCHANGED promptvars

Next ==
    \/ Validate
    \/ CreateSandbox
    \/ MkdirTmp
    \/ MkdirRaises
    \/ RunTest
    \/ TestRaises
    \/ Finish
    \/ NewRun

Spec == Init /\ [][Next]_vars
(* ---------------------------------------------------------------------- *)
(* A caller that drives runcli() by hand                                   *)
(* ---------------------------------------------------------------------- *)
\* runcli(tests, quiet, verbose, patchcmd, answer) was called; nothing of
\* the generator has run yet
InitDeferred ==
    /\ pc = "api"
    /\ settings = NoSettings /\ world = NoWorld
    /\ exit = <<>> /\ tmpdir = "none" /\ proctmp = FALSE /\ environ = {}
    /\ \E c \in Clis : cli = <<c>>
    /\ frame = 0 /\ genDone = FALSE /\ cnt = NoCounts
    /\ hastests = FALSE /\ failed = FALSE
    /\ ran = <<>> /\ last = <<>> /\ summary = <<>>
    /\ errfile = [p \in Paths |-> None]
    /\ NoPrompt

\* next(generator), lines 384-431: the frame binds the next path and test
\* and yields a new wrapper
GenYield ==
    /\ pc = "api" /\ ~genDone /\ frame < NumTests
    /\ frame' = frame + 1
    /\ UNCHANGED <<pc, mainvars, promptvars>>
    /\ UNCHANGED <<cli, genDone, cnt, ran, last, errfile, summary>>

\* next(generator), lines 433-435: no test is left, the summary is written
GenExhaust ==
    /\ pc = "api" /\ ~genDone
    /\ genDone' = TRUE
    /\ summary' = SummaryOf(cnt)
    /\ UNCHANGED <<pc, mainvars, promptvars>>
    /\ UNCHANGED <<cli, frame, cnt, ran, last, errfile>>

\* the caller calls a wrapper it was handed, now or later (lines 386-429)
CallWrapper ==
    /\ pc = "api" /\ Len(ran) < MaxCalls
    /\ \E w \in 1..frame, res \in TestResults :
       \E ans \in AnswersFor(res, cli[1]), retcode \in RetcodesFor(res, cli[1]) :
         LET r == testwrapper(w, Bound(w, frame), res, cli[1], ans, retcode,
                              errfile, cnt)
         IN  /\ last' = <<r.rec>>
             /\ ran' = Append(ran, Call(r.rec))
             /\ cnt' = r.cnt
             /\ errfile' = r.err
    /\ UNCHANGED <<pc, mainvars, promptvars>>
    /\ UNCHANGED <<cli, frame, genDone, summary>>

NextDeferred ==
    \/ GenYield
    \/ GenExhaust
    \/ CallWrapper

SpecDeferred == InitDeferred /\ [][NextDeferred]_vars

(* ---------------------------------------------------------------------- *)
(* _prompt on its own                                                      *)
(* ---------------------------------------------------------------------- *)
\* answers strings: "yN" (with a default) and "yn" (without)
AnswerStrings == {YN, <<"y", "n">>}

\* _prompt(question, answers, auto) was called with stdin holding pStdin
InitPrompt ==
    /\ Fresh([p \in Paths |-> None])
    /\ pc = "prompt"
    /\ pAnswers \in AnswerStrings
    /\ pAuto \in {None, <<"y">>, <<"n">>}
    /\ pStdin \in Stdins
    /\ pAsked = 0
    /\ pRet = <<>>

\* lines 329-334: the question is written and answered by auto
PromptAuto ==
    /\ pc = "prompt" /\ pAuto # None
    /\ pAsked' = pAsked + 1
    /\ pRet' = <<pAuto>>
    /\ pc' = "returned"
    /\ UNCHANGED <<pAnswers, pAuto, pStdin>>
    /\ UNCHANGED <<mainvars, clivars>>

\* lines 329-340: the question is written, a line is read; the loop returns
\* or goes round again (for ever at end of file when there is no default)
PromptRead ==
    /\ pc = "prompt" /\ pAuto = None /\ pAsked <= MaxReads
    /\ pAsked' = pAsked + 1
    /\ pStdin' = RestOf(pStdin)
    /\ LET r == PromptLine(pAnswers, ReadLine(pStdin))
       IN  IF r.done
           THEN pRet' = <<r.value>> /\ pc' = "returned"
           ELSE pRet' = pRet /\ pc' = pc
    /\ UNCHANGED <<pAnswers, pAuto>>
    /\ UNCHANGED <<mainvars, clivars>>

NextPrompt ==
    \/ PromptAuto
    \/ PromptRead

SpecPrompt == InitPrompt /\ [][NextPrompt]_vars
(* ---------------------------------------------------------------------- *)
(* Properties                                                              *)
(* ---------------------------------------------------------------------- *)
\* main() got past its checks
Validated == tmpdir # "none"

\* some test run so far returned a non-empty diff
SomeBad == \E i \in 1..Len(ran) : ran[i].bad

\* two options that exclude each other are both set (lines 181-188)
Excluded(s) ==
    \/ s.yes /\ s.no
    \/ s.quiet /\ s.interactive
    \/ s.debug /\ (s.quiet \/ s.interactive \/ s.verbose \/ s.xunit_file)

\* the latest call was made through a wrapper of runcli
Wrapped == last # <<>> /\ last[1].cli

\* the latest call ran patch and patch exited with 0
Merged == last # <<>> /\ last[1].patchrun /\ last[1].retcode = 0

\* C1: when main() returns, it returns 0, 1 or 2; after a failed check 2;
\* past the checks 0 exactly when a test was yielded and every diff was
\* empty, 1 exactly when a test was yielded and some diff was non-empty, and
\* 2 when no test was yielded.
ExitStatusFollowsDiffs ==
    pc = "done" =>
        /\ exit \in {<<0>>, <<1>>, <<2>>}
        /\ ~Validated => exit = <<2>>
        /\ Validated =>
            /\ exit = <<0>> <=> (ran # <<>> /\ ~SomeBad)
            /\ exit = <<1>> <=> (ran # <<>> /\ SomeBad)
            /\ ran = <<>> => exit = <<2>>

\* a run of two tests, the first failing and the second passing, returned 1
ExitStatusWitness ==
    /\ pc = "done" /\ exit = <<1>>
    /\ Len(ran) = 2 /\ ran[1].bad /\ ~ran[2].bad

\* C2: main() calls the callables in the order they are yielded, each once,
\* whatever the earlier ones returned, and returns only when the generator
\* is exhausted and every callable it yielded was called.
EveryTestCalledInOrder ==
    /\ \A i \in 1..Len(ran) : ran[i].w = i /\ ran[i].idx = i
    /\ Len(ran) <= frame
    /\ pc = "loop" => Len(ran) = frame
    /\ (pc = "done" /\ Validated) => (genDone /\ Len(ran) = frame)

\* a run whose first test failed went on to call the second
EveryTestCalledWitness ==
    /\ pc = "done" /\ genDone
    /\ Len(ran) = 2 /\ ran[1].bad /\ ran[2].w = 2

\* C3: when the config file has an invalid value, two options exclude each
\* other, the shell is not found, patch is missing with --interactive or a
\* test path does not exist, main() returns 2 and has created no sandbox,
\* set no environment variable and run no test.
FatalErrorsBeforeSandbox ==
    (/\ pc # "start"
     /\ \/ ~world.configOK
        \/ Excluded(settings)
        \/ ~world.shellFound
        \/ settings.interactive /\ ~world.patchFound
        \/ ~world.pathsExist)
    => /\ pc = "done" /\ exit = <<2>>
       /\ tmpdir = "none" /\ ~proctmp
       /\ environ = {}
       /\ ran = <<>> /\ frame = 0 /\ cnt = NoCounts

\* a run that only lacked a test path returned 2 with nothing created
FatalErrorsWitness ==
    /\ pc = "done" /\ exit = <<2>>
    /\ world.configOK /\ ~Excluded(settings) /\ world.shellFound
    /\ settings.interactive /\ world.patchFound
    /\ ~world.pathsExist
    /\ tmpdir = "none" /\ environ = {}

\* C4: once the sandbox root exists, every way out of main() leaves it
\* removed when keep_tmpdir is false and in place when it is true.
SandboxRemovedOnEveryExit ==
    (pc \in {"done", "raised"} /\ Validated) =>
        tmpdir = (IF settings.keep_tmpdir THEN "exists" ELSE "removed")

\* C5 as stated: after a wrapper call whose test returned a non-empty diff,
\* with no merge applied, the .err file holds the post output; after a call
\* whose test returned an empty diff there is no .err file.
ErrFileFollowsDiff ==
    Wrapped =>
        LET r == last[1]
        IN  /\ (r.res.diff # <<>> /\ ~Merged) =>
                (errfile[r.path] # None /\ errfile[r.path] = r.res.postout)
            /\ r.res.diff = <<>> => errfile[r.path] = None

\* C5 amended: the same, for results that have a reference and a post
\* output; a call whose test returns no reference or no post output leaves
\* the .err file as it was.
ErrFileFollowsFinishedRuns ==
    Wrapped =>
        LET r == last[1]
            finished == r.res.refout # None /\ r.res.postout # None
        IN  /\ (finished /\ r.res.diff # <<>> /\ ~Merged) =>
                (errfile[r.path] # None /\ errfile[r.path] = r.res.postout)
            /\ (finished /\ r.res.diff = <<>>) => errfile[r.path] = None
            /\ ~finished => errfile[r.path] = r.errBefore

\* a passing run removed the .err file an earlier failing run had left
ErrFileRemovedWitness ==
    /\ Wrapped
    /\ last[1].errBefore # None
    /\ last[1].res.refout # None /\ last[1].res.postout # None
    /\ last[1].res.diff = <<>>
    /\ errfile[last[1].path] = None

\* C6: a merge that was accepted and failed (patch exited with a status
\* other than 0) writes "merge failed", leaves the .err file with the post
\* output, counts the test as failed and returns its diff, and the loop of
\* main() goes on: main() returns 1 once the generator is exhausted.
MergeFailureIsLocal ==
    /\ (last # <<>> /\ last[1].patchrun /\ last[1].retcode # 0) =>
        /\ last[1].mergemsg = <<"merge failed\n">>
        /\ errfile[last[1].path] # None
        /\ errfile[last[1].path] = last[1].res.postout
        /\ cnt.failed >= 1 /\ failed
    /\ \A i \in 1..Len(ran) : ran[i].patch = "failed" =>
        /\ ran[i].bad
        /\ errfile[PathOf(ran[i].idx)] # None
        /\ (pc = "loop" /\ i = Len(ran)) => Len(ran) = frame
        /\ pc # "stop"
        /\ pc = "done" => (genDone /\ Len(ran) = frame /\ exit = <<1>>)

\* the merge of the first test failed and the second test was still run
MergeFailureWitness ==
    /\ pc = "done" /\ exit = <<1>>
    /\ Len(ran) = 2 /\ ran[1].patch = "failed"
    /\ errfile[PathOf(1)] # None

\* C7: patch is run only through a wrapper, for a result with reference and
\* post output and a non-empty diff, with a patch command, quiet off and
\* the prompt answered "y"; with the automatic answer "n" or the default
\* "N" of an empty answer patch is not run and the .err file stays; after
\* "y" and a patch that exits with 0 the .err file is gone.
PatchOnlyWhenAccepted ==
    last # <<>> =>
        LET r == last[1]
        IN  /\ r.patchrun =>
                /\ r.cli /\ cli # <<>>
                /\ r.res.refout # None /\ r.res.postout # None
                /\ r.res.diff # <<>>
                /\ cli[1].patchcmd /\ ~cli[1].quiet
                /\ r.asked /\ r.ans = <<"y">>
            /\ (r.asked /\ (cli[1].answer = <<"n">> \/ r.ans = <<"N">>)) =>
                /\ ~r.patchrun
                /\ errfile[r.path] = r.res.postout /\ errfile[r.path] # None
            /\ (r.patchrun /\ r.retcode = 0) => errfile[r.path] = None
            /\ r.asked => (cli[1].patchcmd /\ ~cli[1].quiet)

\* a failed test was asked about, answered "y" and merged
PatchAcceptedWitness ==
    /\ last # <<>> /\ last[1].patchrun /\ last[1].retcode = 0
    /\ cli[1].answer = None /\ last[1].ans = <<"y">>
    /\ errfile[last[1].path] = None

\* C8: with auto set _prompt returns auto; otherwise what it returns is the
\* default (the uppercase character of answers) or a single character that
\* is one of the characters of answers, lower-cased.
PromptReturnsValidAnswer ==
    pc = "returned" =>
        /\ Len(pRet) = 1
        /\ pAuto # None => pRet[1] = pAuto
        /\ pAuto = None =>
            /\ Len(pRet[1]) = 1
            /\ \/ IsUpper(pRet[1][1])
                  /\ \E i \in 1..Len(pAnswers) : pAnswers[i] = pRet[1][1]
               \/ \E i \in 1..Len(pAnswers) : LowerChar(pAnswers[i]) = pRet[1][1]

\* C9: whenever a wrapper is called, it runs the test it was yielded for
\* and works on the .err file of that test's path.
WrapperKeepsItsTest ==
    /\ \A i \in 1..Len(ran) : ran[i].idx = ran[i].w
    /\ last # <<>> => last[1].path = PathOf(last[1].w)

\* C10: when main() returns after running tests through runcli, the summary
\* line was written with total = the number of tests called and skipped +
\* failed <= total, and main() returns 1 exactly when the failed count of
\* the summary is greater than 0.
SummaryAgreesWithExit ==
    (pc = "done" /\ cli # <<>> /\ ran # <<>>) =>
        /\ Len(summary) = 1
        /\ summary[1].total = Len(ran)
        /\ summary[1].skipped + summary[1].failed <= summary[1].total
        /\ exit = <<1>> <=> summary[1].failed > 0
====
